---- MODULE Spec2Model ----
(***************************************************************************)
(* Model of github-release (src/main.go): publishRelease resolves a        *)
(* release on the remote service and uploadFileWithRetry drives every      *)
(* local file to a same-named remote asset of the same size.               *)
(*                                                                         *)
(* The remote service and the local file system are the environment: each  *)
(* call's outcome is drawn from the outcomes the call can have.  Asset     *)
(* names are small integers: the file at filepaths[i] has base name i.     *)
(* A file keeps the size os.Stat reports for as long as it is reconciled.  *)
(* The remote lists a release's assets by name and gives a new asset the   *)
(* smallest id no asset of the release has.  Time is counted in seconds    *)
(* (time.Second = 1).  The program runs with DEBUG off, so the request and *)
(* response dumps of doRequest and uploadFile are not taken.               *)
(***************************************************************************)
EXTENDS Integers, Sequences, FiniteSets, TLC

(* ------------------------------ bounds --------------------------------- *)
MaxFiles == 3        \* longest list of file paths
MaxSize == 1         \* largest file / asset size in bytes
MaxFairFiles == 2    \* longest list of file paths in the runs of FairSpec
MaxUrlLen == 2       \* longest upload_url template in the runs of SpecURL

(* ------------------------- program constants --------------------------- *)
retryLimit == 5      \* const retryLimit = 5
Second == 1          \* time.Second, the unit of waitTime

VARIABLES
  pc,          \* position of the program
  filepaths,   \* publishRelease's argument: the list of file paths
  release,     \* publishRelease's local `release` (TagName, UploadURL)
  data,        \* publishRelease's `data`: body of the create / fetch response
  uploadURL,   \* publishRelease's `uploadURL`
  cur,         \* index of the file the range loop is at (0 before the loop)
  fileSize,    \* uploadFileWithRetry's locals
  fileName,
  waitTime,
  retryCount,
  asset,       \* deleteAssetWithWrongFileSize's `asset` (NoAsset if none)
  relExists,   \* remote: a release with the tag exists
  assets,      \* remote: the release's asset list
  template,    \* remote: the release's upload_url
  call,        \* one call of doRequest on its own: the answer and the result
  hist         \* record of what the run has done (observation only)

vars == <<pc, filepaths, release, data, uploadURL, cur, fileSize, fileName,
          waitTime, retryCount, asset, relExists, assets, template, call, hist>>

(* ------------------------------ values --------------------------------- *)
Tag == "v1"                       \* the descriptor's tag (flag.Arg(1))
Marker == "already_exists"        \* the text publishRelease looks for
Template == <<"u", "{", "n", "}">>   \* the release's upload_url on the remote
Sizes == 0..MaxSize
Path(i) == <<0, i>>               \* directory 0, base name i
NoAsset == [Id |-> 0, Name |-> 0, Size |-> 0]           \* Asset{}
MkAsset(id, name, size) == [Id |-> id, Name |-> name, Size |-> size]

\* A response body: a release document, an error document or undecodable
\* bytes; `text` is what bytes.Contains can find in it.
MkBody(kind, text, url, tag, as) ==
  [kind |-> kind, text |-> text, upload_url |-> url, tag_name |-> tag, assets |-> as]
NoBody == MkBody("nil", "", <<>>, "", <<>>)
Garbage == MkBody("garbage", "", <<>>, "", <<>>)
ErrorBody(text) == MkBody("error", text, <<>>, "", <<>>)
ReleaseBody(url, tag, as) == MkBody("release", "", url, tag, as)

\* What the network gives http.DefaultClient.Do: no response at all, or a
\* status and a body.
NetError == [neterr |-> TRUE, status |-> 0, body |-> NoBody]
Reply(status, body) == [neterr |-> FALSE, status |-> status, body |-> body]

(* --------------------------- pure functions ---------------------------- *)
\* filepath.Base: the last element of the path.
Base(path) == path[Len(path)]

StatusOK == 200
StatusCreated == 201
StatusNoContent == 204
FailureStatuses == {404, 422, 500}   \* statuses the remote answers a failed call with
SuccessStatuses == {StatusOK, StatusCreated, StatusNoContent}

\* Variant: only 200 counts as success.
doRequest_OnlyOK(raw) ==
  IF raw.neterr
    THEN [body |-> NoBody, status |-> 0, err |-> TRUE]
    ELSE [body |-> raw.body, status |-> raw.status, err |-> raw.status # StatusOK]

\* doRequest's classification of an answer: <<body, status, err>>.
doRequest(raw) ==
  IF raw.neterr
    THEN [body |-> NoBody, status |-> 0, err |-> TRUE]
    ELSE IF raw.status # StatusOK /\ raw.status # StatusCreated
                                   /\ raw.status # StatusNoContent
      THEN [body |-> raw.body, status |-> raw.status, err |-> TRUE]
      ELSE [body |-> raw.body, status |-> raw.status, err |-> FALSE]

\* json.Unmarshal(data, &release): the fields of a release document
\* overwrite those of `rel`; anything else is a decoding error.
Unmarshal(body, rel) ==
  IF body.kind = "release"
    THEN [err |-> FALSE,
          release |-> [TagName |-> body.tag_name, UploadURL |-> body.upload_url],
          assets |-> body.assets]
    ELSE [err |-> TRUE, release |-> rel, assets |-> <<>>]

\* bytes.Contains(data, []byte("already_exists"))
ContainsMarker(body) == body.text = Marker

\* Variant: no fallback, every failed create aborts.
AfterCreate_NoFallback(resp) == IF resp.err THEN "fatal" ELSE "decode"

\* Variant: every failed create falls back to the fetch.
AfterCreate_AlwaysFetch(resp) == IF resp.err THEN "fetch" ELSE "decode"

\* publishRelease after the create call: fall back to the fetch, abort, or
\* go on to decode.
AfterCreate(resp) ==
  IF resp.err /\ ContainsMarker(resp.body) THEN "fetch"
  ELSE IF resp.err THEN "fatal"
  ELSE "decode"

\* Variant: the URL is cut at its last "{".
StripTemplate_Last(url) ==
  IF \E i \in 1..Len(url) : url[i] = "{"
    THEN SubSeq(url, 1, (CHOOSE i \in 1..Len(url) :
                           /\ url[i] = "{"
                           /\ \A j \in (i + 1)..Len(url) : url[j] # "{") - 1)
    ELSE url

\* strings.Split(url, "{")[0]
StripTemplate(url) ==
  IF \E i \in 1..Len(url) : url[i] = "{"
    THEN SubSeq(url, 1, (CHOOSE i \in 1..Len(url) :
                           /\ url[i] = "{"
                           /\ \A j \in 1..(i - 1) : url[j] # "{") - 1)
    ELSE url

\* Variant: the scan does not compare names and ends at the last asset.
AssetIndex_Last(as, filename) == IF as = <<>> THEN -1 ELSE Len(as)

\* The scan of getAssetByFilename: index of the first asset with the name,
\* -1 if there is none.
AssetIndex(as, filename) ==
  IF \E i \in 1..Len(as) : as[i].Name = filename
    THEN CHOOSE i \in 1..Len(as) :
           /\ as[i].Name = filename
           /\ \A j \in 1..(i - 1) : as[j].Name # filename
    ELSE -1

\* Variant: when no asset has the name, the first asset of the list is
\* returned.
getAssetByFilename_First(resp, filename) ==
  IF resp.err THEN [asset |-> NoAsset, err |-> TRUE, why |-> "request"]
  ELSE LET u == Unmarshal(resp.body, [TagName |-> "", UploadURL |-> <<>>]) IN
    IF u.err THEN [asset |-> NoAsset, err |-> TRUE, why |-> "decode"]
    ELSE IF u.assets = <<>>
      THEN [asset |-> NoAsset, err |-> TRUE, why |-> "notfound"]
      ELSE [asset |-> u.assets[IF AssetIndex(u.assets, filename) = -1 THEN 1
                               ELSE AssetIndex(u.assets, filename)],
            err |-> FALSE, why |-> "found"]

\* getAssetByFilename on the answer of its GET: <<asset, err>>; `why` tells
\* the three errors apart.
getAssetByFilename(resp, filename) ==
  IF resp.err THEN [asset |-> NoAsset, err |-> TRUE, why |-> "request"]
  ELSE LET u == Unmarshal(resp.body, [TagName |-> "", UploadURL |-> <<>>]) IN
    IF u.err THEN [asset |-> NoAsset, err |-> TRUE, why |-> "decode"]
    ELSE IF AssetIndex(u.assets, filename) = -1
      THEN [asset |-> NoAsset, err |-> TRUE, why |-> "notfound"]
      ELSE [asset |-> u.assets[AssetIndex(u.assets, filename)],
            err |-> FALSE, why |-> "found"]

\* Variant: an asset no larger than the file passes for correct.
HasCorrectSize_AtMost(a, size) == a.Size <= size

\* asset.Size == fileSize in deleteAssetWithWrongFileSize
HasCorrectSize(a, size) == a.Size = size

\* Variant: every asset found is deleted, whatever its size.
deleteAssetWithWrongFileSize_Always(found, size) ==
  IF found.err THEN "error" ELSE "delete"

\* Variant: the lookup's error is ignored and the DELETE is issued.
deleteAssetWithWrongFileSize_IgnoreErr(found, size) ==
  IF ~found.err /\ found.asset.Size = size THEN "correct" ELSE "delete"

\* Variant: an asset of another size is left on the release.
deleteAssetWithWrongFileSize_Never(found, size) ==
  IF ~found.err /\ found.asset.Size = size THEN "correct" ELSE "error"

\* What deleteAssetWithWrongFileSize does with the lookup's result: return
\* its error, return AssetHasCorrectSizeError, or issue the DELETE.
deleteAssetWithWrongFileSize(found, size) ==
  IF found.err THEN "error"
  ELSE IF HasCorrectSize(found.asset, size) THEN "correct"
  ELSE "delete"

\* Variant: the DELETE names the id after the asset's.
DeleteTarget_Next(a) == a.Id + 1

\* The asset id in the URL of the DELETE request.
DeleteTarget(a) == a.Id

\* Variant: the loop over the files goes on after a failed file.
AfterUpload_Continue(failed) == "range"

\* publishRelease after uploadFileWithRetry returned: log.Fatalln on an
\* error, the next file otherwise.
AfterUpload(failed) == IF failed THEN "fatal" ELSE "range"

\* Variant: a failed delete ends the file.
AfterClear_Abort(err) == IF err THEN "fatal" ELSE "limit"

\* uploadFileWithRetry after deleteAssetWithWrongFileSize returned without
\* AssetHasCorrectSizeError: an error is logged, then the retry-limit check.
AfterClear(err) == "limit"

\* Variant: a failed upload ends the file.
AfterUploadFile_Abort(err) == IF err THEN "fatal" ELSE "lookup"

\* Variant: the retry-limit check comes before the lookup.
AfterUploadFile_LimitFirst(err) == "limit"

\* uploadFileWithRetry after uploadFile returned: an error is logged, the
\* counter goes up and the loop starts over.
AfterUploadFile(err) == "lookup"

\* Variant: one attempt too many.
RetryLimitReached_Late(count) == count > retryLimit

\* Variant: the limit is compared two attempts late.
RetryLimitReached_Off(count) == count >= retryLimit + 2

\* retryCount >= retryLimit
RetryLimitReached(count) == count >= retryLimit

\* Variant: the first attempt waits too.
MustWait_Always(count) == count >= 0

\* retryCount > 0: this is not the first attempt, sleep before it
MustWait(count) == count > 0

\* Variant: the wait grows by a second instead of doubling.
NextWaitTime_Linear(w) == w + Second

\* waitTime = waitTime * 2
NextWaitTime(w) == w * 2

(* ----------------------------- environment ----------------------------- *)
\* The remote's asset list without the asset of the given id.
RECURSIVE Without(_, _)
Without(as, id) ==
  IF as = <<>> THEN <<>>
  ELSE IF Head(as).Id = id THEN Without(Tail(as), id)
  ELSE <<Head(as)>> \o Without(Tail(as), id)

HasName(as, name) == \E i \in 1..Len(as) : as[i].Name = name

\* The asset of the given name in the list, NoAsset if there is none.
Named(as, name) ==
  IF HasName(as, name) THEN as[CHOOSE i \in 1..Len(as) : as[i].Name = name]
  ELSE NoAsset

\* The list without the assets of the given name.
RECURSIVE WithoutName(_, _)
WithoutName(as, name) ==
  IF as = <<>> THEN <<>>
  ELSE IF Head(as).Name = name THEN WithoutName(Tail(as), name)
  ELSE <<Head(as)>> \o WithoutName(Tail(as), name)

\* The remote adds an asset: it gets a fresh id and its place by name.
FreshId(as) ==
  CHOOSE id \in 1..(Len(as) + 1) :
    /\ \A i \in 1..Len(as) : as[i].Id # id
    /\ \A k \in 1..(id - 1) : \E i \in 1..Len(as) : as[i].Id = k
RECURSIVE Insert(_, _)
Insert(as, a) ==
  IF as = <<>> THEN <<a>>
  ELSE IF a.Name < Head(as).Name THEN <<a>> \o as
  ELSE <<Head(as)>> \o Insert(Tail(as), a)

\* The asset list of a release that holds, for the names 1..n, an asset of
\* size f[name] (none if f[name] = -1).
RECURSIVE AssetList(_, _)
AssetList(f, n) ==
  IF n = 0 THEN <<>>
  ELSE LET prev == AssetList(f, n - 1) IN
    IF f[n] = -1 THEN prev
    ELSE Append(prev, MkAsset(Len(prev) + 1, n, f[n]))

(* ------------------------------- state --------------------------------- *)
\* The part of hist that is about the file being reconciled.
FileHist ==
  [iterOps |-> <<>>,      \* steps of the current loop iteration, in order
   lookups |-> 0,         \* GETs of getAssetByFilename for this file
   uploads |-> 0,         \* calls of uploadFile for this file
   asset0 |-> NoAsset,    \* the asset of the file's name when the run began
   sleeps |-> <<>>,       \* durations slept for this file, in order
   lookup |-> "none",     \* outcome of the last lookup
   delId |-> 0,           \* id the last DELETE of this iteration named
   delOk |-> FALSE,       \* that DELETE succeeded
   upErr |-> "none",      \* how the upload of this iteration failed, "ok" if not
   blind |-> TRUE,        \* so far: the GET of every lookup for this file failed
   postURL |-> <<>>,      \* base URL the last upload request went to
   postName |-> 0,        \* ?name= of the last upload request
   postLength |-> -1]     \* its Content-Length

\* No call of doRequest is looked at on its own.
NoResult == [body |-> NoBody, status |-> -1, err |-> FALSE]
NoCall == [raw |-> NetError, resp |-> NoResult, done |-> FALSE]

\* publishRelease is entered with n files, against a remote that has no
\* release of the tag or has one with any assets of the files' names.
Entered(n) ==
  /\ pc = "create"
  /\ filepaths = [i \in 1..n |-> Path(i)]
  /\ relExists \in BOOLEAN
  /\ IF relExists
       THEN \E f \in [1..n -> Sizes \cup {-1}] : assets = AssetList(f, n)
       ELSE assets = <<>>
  /\ release = [TagName |-> Tag, UploadURL |-> <<>>]
  /\ data = NoBody
  /\ uploadURL = <<>>
  /\ cur = 0
  /\ fileSize = 0 /\ fileName = 0 /\ waitTime = 0 /\ retryCount = 0
  /\ asset = NoAsset
  /\ hist = [file |-> FileHist,
             result |-> [i \in 1..Len(filepaths) |-> "none"],
             size |-> [i \in 1..Len(filepaths) |-> -1],   \* sizes os.Stat gave
             fatalAt |-> "none",      \* where the run was aborted
             ideal |-> relExists,     \* so far: the release held a right-sized
                                      \* asset for every file and no call failed
             rest0 |-> assets,        \* the first assets of the files not begun
             lastOp |-> "none",       \* the last remote call made
             creates |-> 0,           \* create-release calls
             fetches |-> 0,           \* fetch-by-tag calls of publishRelease
             fetchTag |-> "",         \* tag of that fetch
             conflict |-> FALSE,      \* the create call answered "already_exists"
             createErr |-> FALSE,     \* the create call failed
             urlFrom |-> "none"]      \* the call whose body was decoded

Init ==
  /\ \E n \in 1..MaxFiles : Entered(n)
  /\ template = Template
  /\ call = NoCall

(* ------------------------ answers of the remote ------------------------ *)
FailureReplies == {Reply(s, ErrorBody("")) : s \in FailureStatuses}

\* POST /releases: creates the release unless one with the tag exists, in
\* which case the failure body says "already_exists".
CreateReplies ==
  {NetError} \cup FailureReplies
    \cup {Reply(s, ErrorBody(Marker)) : s \in FailureStatuses}
    \cup (IF relExists THEN {}
          ELSE {Reply(StatusCreated, ReleaseBody(template, Tag, <<>>)),
                Reply(StatusCreated, Garbage)})
CreateFaithful(r) ==
  IF relExists THEN r \in {Reply(s, ErrorBody(Marker)) : s \in FailureStatuses}
  ELSE r = Reply(StatusCreated, ReleaseBody(template, Tag, <<>>))

\* GET /releases/tags/<tag>: the release with its current asset list.
GetReplies(tag) ==
  {NetError} \cup FailureReplies
    \cup (IF relExists /\ tag = Tag
          THEN {Reply(StatusOK, ReleaseBody(template, Tag, assets)),
                Reply(StatusOK, Garbage)}
          ELSE {})
GetFaithful(r) == r = Reply(StatusOK, ReleaseBody(template, Tag, assets))

\* DELETE /releases/assets/<id>: removes the asset when it answers 204.
DeleteReplies(id) ==
  {NetError} \cup FailureReplies
    \cup (IF \E i \in 1..Len(assets) : assets[i].Id = id
          THEN {Reply(StatusNoContent, NoBody)} ELSE {})

\* POST <uploadURL>?name=<name> with `length` bytes: <<answer, size of the
\* asset the call leaves on the release (-1: none)>>.  A name is unique on a
\* release; a failed upload may leave nothing, a truncated asset or, when
\* only the answer is lost, the whole asset.
UploadReplies(name, length) ==
  IF HasName(assets, name)
    THEN {<<NetError, -1>>} \cup {<<r, -1>> : r \in FailureReplies}
    ELSE {<<NetError, -1>>, <<NetError, length>>,
          <<Reply(StatusCreated, NoBody), length>>}
         \cup {<<r, -1>> : r \in FailureReplies}
         \cup {<<Reply(500, ErrorBody("")), p>> : p \in 0..(length - 1)}

(* ------------------------------ actions -------------------------------- *)
Locals == <<fileSize, fileName, waitTime, retryCount, asset>>
Remote == <<relExists, assets>>
Inputs == <<filepaths, template, call>>   \* what no step of a run changes

\* publishRelease: the create call and the branch on its outcome.
CreateRelease ==
  /\ pc = "create"
  /\ \E r \in CreateReplies :
       LET resp == doRequest(r)
           next == AfterCreate(resp) IN
       /\ relExists' = (relExists \/ ~resp.err)
       /\ pc' = next
       /\ data' = resp.body
       /\ hist' = [hist EXCEPT !.creates = @ + 1,
                               !.lastOp = "create",
                               !.createErr = resp.err,
                               !.conflict = resp.err /\ ContainsMarker(resp.body),
                               !.ideal = @ /\ CreateFaithful(r),
                               !.urlFrom = IF next = "decode" THEN "create" ELSE @,
                               !.fatalAt = IF next = "fatal" THEN "create" ELSE @]
  /\ UNCHANGED <<Inputs, Locals, release, uploadURL, cur, assets>>

\* publishRelease: the fetch of the existing release by tag.
FetchRelease ==
  /\ pc = "fetch"
  /\ \E r \in GetReplies(release.TagName) :
       LET resp == doRequest(r) IN
       /\ pc' = IF resp.err THEN "fatal" ELSE "decode"
       /\ data' = resp.body
       /\ hist' = [hist EXCEPT !.fetches = @ + 1,
                               !.fetchTag = release.TagName,
                               !.lastOp = "fetch",
                               !.ideal = @ /\ GetFaithful(r),
                               !.urlFrom = IF resp.err THEN @ ELSE "fetch",
                               !.fatalAt = IF resp.err THEN "fetch" ELSE @]
  /\ UNCHANGED <<Inputs, Locals, Remote, release, uploadURL, cur>>

\* publishRelease: decode the release and derive the upload URL.
DecodeRelease ==
  /\ pc = "decode"
  /\ LET u == Unmarshal(data, release) IN
       /\ release' = u.release
       /\ pc' = IF u.err THEN "fatal" ELSE "range"
       /\ uploadURL' = IF u.err THEN uploadURL ELSE StripTemplate(u.release.UploadURL)
       /\ hist' = [hist EXCEPT !.fatalAt = IF u.err THEN "decode" ELSE @]
  /\ data' = NoBody
  /\ UNCHANGED <<Inputs, Locals, Remote, cur>>

\* publishRelease's range loop takes the next file; uploadFileWithRetry
\* stats it and sets up its locals.
StartFile ==
  /\ pc = "range"
  /\ cur < Len(filepaths)
  /\ cur' = cur + 1
  /\ LET name == Base(filepaths[cur'])
         first == Named(hist.rest0, name)
         rest == WithoutName(hist.rest0, name) IN
     \/ \E size \in Sizes :                    \* os.Stat succeeds
          /\ pc' = "lookup"
          /\ fileSize' = size
          /\ fileName' = name
          /\ waitTime' = Second
          /\ retryCount' = 0
          /\ hist' = [hist EXCEPT
               !.file = [FileHist EXCEPT !.asset0 = first],
               !.rest0 = rest,
               !.size[cur'] = size,
               !.ideal = @ /\ first # NoAsset /\ first.Size = size]
     \/ /\ pc' = AfterUpload(TRUE)              \* os.Stat fails
        /\ UNCHANGED <<fileSize, fileName, waitTime, retryCount>>
        /\ hist' = [hist EXCEPT !.file = [FileHist EXCEPT !.asset0 = first],
                                !.rest0 = rest,
                                !.result[cur'] = "fatal",
                                !.ideal = FALSE,
                                !.fatalAt = "stat"]
  /\ asset' = NoAsset
  /\ UNCHANGED <<Inputs, Remote, release, data, uploadURL>>

\* publishRelease returns after the last file.
Finish ==
  /\ pc = "range"
  /\ cur = Len(filepaths)
  /\ pc' = "done"
  /\ UNCHANGED <<Inputs, Locals, Remote, release, data, uploadURL, cur, hist>>

\* Top of the loop: deleteAssetWithWrongFileSize looks the asset up and
\* compares its size.
LookupAsset ==
  /\ pc = "lookup"
  /\ \E r \in GetReplies(release.TagName) :
       LET found == getAssetByFilename(doRequest(r), fileName)
           what == deleteAssetWithWrongFileSize(found, fileSize) IN
       /\ asset' = found.asset
       /\ pc' = CASE what = "correct" -> AfterUpload(FALSE)
                  [] what = "delete" -> "delete"
                  [] OTHER -> AfterClear(found.err)
       /\ hist' = [hist EXCEPT
            !.file.iterOps = <<"lookup">>,
            !.file.lookups = @ + 1,
            !.file.lookup = IF found.err THEN found.why ELSE what,
            !.file.delId = 0,
            !.file.delOk = FALSE,
            !.file.upErr = "none",
            !.file.blind = @ /\ found.why = "request",
            !.lastOp = "lookup",
            !.ideal = @ /\ GetFaithful(r),
            !.result[cur] = IF what = "correct" THEN "success" ELSE @]
  /\ UNCHANGED <<Inputs, Remote, release, data, uploadURL, cur,
                 fileSize, fileName, waitTime, retryCount>>

\* deleteAssetWithWrongFileSize deletes the asset it found; the caller only
\* logs a failure.
DeleteAsset ==
  /\ pc = "delete"
  /\ \E r \in DeleteReplies(DeleteTarget(asset)) :
       LET resp == doRequest(r) IN
       /\ assets' = IF r.neterr \/ r.status \notin SuccessStatuses
                      THEN assets ELSE Without(assets, DeleteTarget(asset))
       /\ hist' = [hist EXCEPT
            !.file.iterOps = Append(@, "delete"),
            !.file.delId = DeleteTarget(asset),
            !.file.delOk = ~resp.err,
            !.lastOp = "delete",
            !.ideal = @ /\ ~resp.err]
       /\ pc' = AfterClear(resp.err)
  /\ UNCHANGED <<Inputs, Locals, relExists, release, data, uploadURL, cur>>

\* if retryCount >= retryLimit { return error }
CheckRetryLimit ==
  /\ pc = "limit"
  /\ IF RetryLimitReached(retryCount)
       THEN /\ pc' = AfterUpload(TRUE)
            /\ hist' = [hist EXCEPT !.file.iterOps = Append(@, "limit"),
                                    !.result[cur] = "fatal",
                                    !.fatalAt = "retrylimit"]
       ELSE /\ pc' = IF MustWait(retryCount) THEN "backoff" ELSE "upload"
            /\ hist' = [hist EXCEPT !.file.iterOps = Append(@, "limit")]
  /\ UNCHANGED <<Inputs, Locals, Remote, release, data, uploadURL, cur>>

\* waitTime = waitTime * 2; time.Sleep(waitTime)
Backoff ==
  /\ pc = "backoff"
  /\ waitTime' = NextWaitTime(waitTime)
  /\ hist' = [hist EXCEPT !.file.iterOps = Append(@, "sleep"),
                          !.file.sleeps = Append(@, waitTime')]
  /\ pc' = "upload"
  /\ UNCHANGED <<Inputs, Remote, release, data, uploadURL, cur,
                 fileSize, fileName, retryCount, asset>>

\* uploadFile and retryCount++: the outcome of the upload is only logged.
UploadFile ==
  /\ pc = "upload"
  /\ \/ /\ UNCHANGED assets                    \* os.Open fails: no request
        /\ hist' = [hist EXCEPT
             !.file.iterOps = Append(@, "upload"),
             !.file.uploads = @ + 1,
             !.file.upErr = "open",
             !.ideal = FALSE]
        /\ pc' = AfterUploadFile(TRUE)
     \/ \E o \in UploadReplies(Base(filepaths[cur]), fileSize) :
          LET resp == doRequest(o[1]) IN
          /\ assets' = IF o[2] = -1 THEN assets
                        ELSE Insert(assets, MkAsset(FreshId(assets),
                                                    Base(filepaths[cur]), o[2]))
          /\ hist' = [hist EXCEPT
               !.file.iterOps = Append(@, "upload"),
               !.file.uploads = @ + 1,
               !.file.postURL = uploadURL,
               !.file.postName = Base(filepaths[cur]),
               !.file.postLength = fileSize,
               !.file.upErr = IF resp.err THEN "request" ELSE "ok",
               !.lastOp = "upload",
               !.ideal = @ /\ ~resp.err]
          /\ pc' = AfterUploadFile(resp.err)
  /\ retryCount' = retryCount + 1
  /\ UNCHANGED <<Inputs, relExists, release, data, uploadURL, cur,
                 fileSize, fileName, waitTime, asset>>

Next ==
  \/ CreateRelease
  \/ FetchRelease
  \/ DecodeRelease
  \/ StartFile
  \/ Finish
  \/ LookupAsset
  \/ DeleteAsset
  \/ CheckRetryLimit
  \/ Backoff
  \/ UploadFile

Spec == Init /\ [][Next]_vars

\* The program is one goroutine that runs each statement after the one
\* before; a remote call is taken to return, with an answer or an error.
\* Runs that come to an end are looked for among the runs of up to
\* MaxFairFiles files.
InitFair ==
  /\ \E n \in 1..MaxFairFiles : Entered(n)
  /\ template = Template
  /\ call = NoCall

FairSpec == InitFair /\ [][Next]_vars /\ WF_vars(Next)

(* ----------------------- any upload_url template ----------------------- *)
\* The release's upload_url is whatever the server sends: any string, with
\* "{" anywhere or nowhere.  The run uploads two files.
UrlChars == {"u", "{"}
Templates == UNION {[1..k -> UrlChars] : k \in 0..MaxUrlLen}

InitURL ==
  /\ Entered(2)
  /\ template \in Templates
  /\ call = NoCall

SpecURL == InitURL /\ [][Next]_vars

(* ------------------------- doRequest on its own ------------------------ *)
\* What http.DefaultClient.Do and ioutil.ReadAll can give doRequest: a
\* status and a body, or an error (neterr) that leaves doRequest without
\* the response or without its body.
Statuses == {200, 201, 202, 204, 301, 400, 404, 422, 500, 503}
Bodies == {NoBody, Garbage, ErrorBody(""), ErrorBody(Marker),
           ReleaseBody(Template, Tag, <<>>)}
RawAnswers == [neterr : BOOLEAN, status : Statuses, body : Bodies]

InitRequest ==
  /\ Entered(1)
  /\ template = Template
  /\ call \in {[NoCall EXCEPT !.raw = r] : r \in RawAnswers}

\* One call of doRequest.
Request ==
  /\ ~call.done
  /\ call' = [call EXCEPT !.resp = doRequest(call.raw), !.done = TRUE]
  /\ UNCHANGED <<pc, filepaths, release, data, uploadURL, cur, Locals, Remote,
                 template, hist>>

SpecRequest == InitRequest /\ [][Request]_vars

(* ------------------------------ properties ----------------------------- *)
Last(seq) == seq[Len(seq)]
Times(seq, x) == Cardinality({i \in 1..Len(seq) : seq[i] = x})
InFile == cur > 0 /\ hist.fatalAt # "stat"       \* the loop of a file was entered
FileSucceeded == pc = "range" /\ cur > 0         \* uploadFileWithRetry returned nil
FileFailed == pc = "fatal" /\ cur > 0            \* it returned an error
RunStopped == ~ENABLED Next

\* C1: when uploadFileWithRetry has returned, either it returned success and
\* the last remote call was a lookup that found an asset with the file's
\* base name and the file's size (an upload never ends the loop by itself),
\* or it returned an error and nothing more is done, for this file or a
\* later one.
C1_TerminationOutcome ==
  /\ FileSucceeded =>
       /\ hist.result[cur] = "success"
       /\ hist.lastOp = "lookup"
       /\ hist.file.iterOps = <<"lookup">>
       /\ hist.file.lookup = "correct"
       /\ asset.Name = Base(filepaths[cur])
       /\ asset.Size = hist.size[cur]
       /\ asset = Named(assets, Base(filepaths[cur]))
  /\ FileFailed =>
       /\ hist.result[cur] = "fatal"
       /\ RunStopped
       /\ \A j \in (cur + 1)..Len(filepaths) : hist.result[j] = "none"
  /\ (InFile /\ hist.file.iterOps # <<>> /\ Last(hist.file.iterOps) = "upload") =>
       /\ pc = "lookup"
       /\ hist.result[cur] = "none"
  /\ (cur > 0 /\ hist.result[cur] = "success") => (FileSucceeded \/ pc = "done")
  /\ (cur > 0 /\ hist.result[cur] = "fatal") => FileFailed
C1_Witness ==
  /\ FileSucceeded
  /\ hist.file.uploads >= 2
  /\ hist.file.asset0 # NoAsset

\* C2: a file's loop never makes more than retryLimit upload attempts, and a
\* loop that ends without a lookup having seen a right-sized asset has made
\* exactly retryLimit attempts and ends in the "retry limit" error.
C2_RetryBound ==
  /\ hist.file.uploads <= retryLimit
  /\ InFile => hist.file.uploads = retryCount
  /\ (FileFailed /\ InFile) =>
       /\ hist.fatalAt = "retrylimit"
       /\ hist.file.uploads = retryLimit
       /\ hist.file.lookup # "correct"
  /\ (InFile /\ pc \in {"range", "fatal", "done"} /\ hist.file.lookup # "correct") =>
       /\ pc = "fatal"
       /\ hist.fatalAt = "retrylimit"
       /\ hist.file.uploads = retryLimit
C2_Witness ==
  /\ FileFailed
  /\ hist.fatalAt = "retrylimit"
  /\ hist.file.uploads = retryLimit
  /\ hist.file.lookup = "notfound"

\* C3: in a run against a release that already holds a right-sized asset for
\* every file, and whose calls are all answered, there is no delete and no
\* upload: one create call, one fetch, one lookup per file, and success.
C3_Idempotence ==
  hist.ideal =>
    /\ pc \notin {"delete", "limit", "backoff", "upload", "fatal"}
    /\ hist.file.uploads = 0
    /\ hist.file.lookups <= 1
    /\ Times(hist.file.iterOps, "delete") = 0
    /\ Times(hist.file.iterOps, "upload") = 0
    /\ hist.lastOp \notin {"delete", "upload"}
    /\ hist.creates <= 1 /\ hist.fetches <= 1
    /\ cur > 0 => hist.creates = 1 /\ hist.fetches = 1
    /\ FileSucceeded => hist.file.lookups = 1
    /\ \A j \in 1..Len(filepaths) :
         /\ j < cur => hist.result[j] = "success"
         /\ (j = cur /\ pc \in {"range", "done"}) => hist.result[j] = "success"
         /\ j <= cur => Named(assets, Base(filepaths[j])).Size = hist.size[j]
    /\ \A j \in (cur + 1)..Len(filepaths) :
         Named(assets, Base(filepaths[j])) = Named(hist.rest0, Base(filepaths[j]))
    /\ pc = "done" => Len(assets) = Len(filepaths)
C3_Witness ==
  /\ pc = "done"
  /\ hist.ideal
  /\ Len(filepaths) >= 2

\* C4: a lookup that finds a same-named asset of another size is followed,
\* before the retry-limit check and the next upload, by exactly one DELETE,
\* for that asset's id; for a file whose asset was wrong-sized from the start
\* the first answered lookup is such a lookup.  The first lookup that sees
\* the right size ends the file in success, with no delete or upload after it.
C4_Convergence ==
  InFile =>
    /\ pc = "delete" =>
         /\ hist.file.iterOps = <<"lookup">>
         /\ hist.file.lookup = "delete"
         /\ asset.Name = fileName
         /\ asset.Size # fileSize
         /\ asset = Named(assets, fileName)
    /\ (hist.file.lookup = "delete" /\ pc # "delete") =>
         /\ Len(hist.file.iterOps) >= 2
         /\ hist.file.iterOps[2] = "delete"
         /\ Times(hist.file.iterOps, "delete") = 1
         /\ hist.file.delId = asset.Id
         /\ hist.file.delOk => ~HasName(assets, fileName) \/ Last(hist.file.iterOps) = "upload"
    /\ (hist.file.lookup # "delete") => Times(hist.file.iterOps, "delete") = 0
    /\ (/\ hist.file.asset0 # NoAsset
        /\ hist.file.asset0.Size # fileSize
        /\ hist.file.lookups = 1
        /\ hist.file.lookup \notin {"request", "decode"}) =>
         /\ hist.file.lookup = "delete"
         /\ asset = hist.file.asset0
    /\ hist.file.lookup = "correct" =>
         /\ pc \in {"range", "done"}
         /\ hist.result[cur] = "success"
         /\ hist.file.iterOps = <<"lookup">>
         /\ hist.lastOp = "lookup"
C4_Witness ==
  /\ FileSucceeded
  /\ hist.file.asset0 # NoAsset
  /\ hist.file.asset0.Size # fileSize
  /\ hist.file.uploads = 1
  /\ hist.file.lookups = 2

\* The k-th power of two.
RECURSIVE Pow2(_)
Pow2(k) == IF k = 0 THEN 1 ELSE 2 * Pow2(k - 1)

\* The number of sleeps a file's loop has made at this point: one before
\* every upload attempt but the first.
SleepsDue ==
  IF pc = "upload" THEN retryCount
  ELSE IF retryCount = 0 THEN 0 ELSE retryCount - 1

\* C5 as stated: the sleeps before the upload attempts 2, 3, 4, 5 are 1, 2,
\* 4, 8 seconds.
C5_Original ==
  InFile =>
    /\ Len(hist.file.sleeps) = SleepsDue
    /\ \A i \in 1..Len(hist.file.sleeps) :
         hist.file.sleeps[i] = Pow2(i - 1) * Second

\* C5, amended: waitTime starts at 1 second and is doubled before it is
\* slept, so the sleeps before the upload attempts 2, 3, 4, 5 are 2, 4, 8,
\* 16 seconds.
C5_BackoffValues ==
  InFile =>
    /\ Len(hist.file.sleeps) = SleepsDue
    /\ \A i \in 1..Len(hist.file.sleeps) :
         hist.file.sleeps[i] = Pow2(i) * Second
    /\ waitTime = Pow2(Len(hist.file.sleeps)) * Second
C5_Witness ==
  /\ InFile
  /\ pc = "upload"
  /\ retryCount = retryLimit - 1
  /\ hist.file.sleeps = <<2, 4, 8, 16>>

\* The steps an iteration is made of, in the order the loop takes them.
IterationsFirst ==
  { <<"lookup", "limit", "upload">>, <<"lookup", "delete", "limit", "upload">> }
IterationsLater ==
  { <<"lookup", "limit", "sleep", "upload">>,
    <<"lookup", "delete", "limit", "sleep", "upload">> }

\* C6: no sleep precedes a file's first upload attempt; every later attempt
\* is preceded, after the iteration's lookup (and delete) and retry-limit
\* check and before the upload, by exactly one sleep; each sleep is double
\* the one before; every file starts again from waitTime = 1 second.
C6_BackoffPlacement ==
  InFile =>
    /\ retryCount = 0 => hist.file.sleeps = <<>>
    /\ (retryCount = 0 \/ (retryCount = 1 /\ pc = "lookup")) =>
         Times(hist.file.iterOps, "sleep") = 0
    /\ (hist.file.iterOps # <<>> /\ Last(hist.file.iterOps) = "upload") =>
         IF hist.file.uploads = 1
           THEN hist.file.iterOps \in IterationsFirst
           ELSE hist.file.iterOps \in IterationsLater
    /\ pc = "upload" =>
         /\ Times(hist.file.iterOps, "sleep") = (IF retryCount = 0 THEN 0 ELSE 1)
         /\ Times(hist.file.iterOps, "limit") = 1
         /\ Last(hist.file.iterOps) = (IF retryCount = 0 THEN "limit" ELSE "sleep")
    /\ pc = "backoff" => retryCount > 0 /\ Last(hist.file.iterOps) = "limit"
    /\ \A i \in 2..Len(hist.file.sleeps) :
         hist.file.sleeps[i] = 2 * hist.file.sleeps[i - 1]
    /\ hist.file.sleeps # <<>> => hist.file.sleeps[1] = 2 * Second
    /\ (pc = "lookup" /\ hist.file.lookups = 0) =>
         waitTime = Second /\ retryCount = 0 /\ hist.file.sleeps = <<>>
C6_Witness ==
  /\ InFile
  /\ cur >= 2
  /\ Len(hist.file.sleeps) >= 2
  /\ Last(hist.file.iterOps) = "upload"

Resolving == cur = 0                       \* publishRelease is before its loop
PostSent == hist.file.postLength >= 0      \* an upload request went out for the file
RemoteUntouched == assets = hist.rest0 /\ hist.file = FileHist

\* C7 as stated: after a create call that failed with "already_exists" in
\* its body, the run is aborted during resolution only if the fetch fails.
C7_Original ==
  (hist.conflict /\ Resolving /\ pc = "fatal") => hist.fatalAt = "fetch"

\* C7, amended: a create call that failed with "already_exists" in its body
\* is followed by exactly one fetch, for the descriptor's tag; when the
\* fetch succeeds and its body decodes as a release, the files are
\* reconciled with the upload URL of the fetched release; during resolution
\* the run is aborted only if the fetch fails or its body does not decode.
C7_ConflictFallback ==
  /\ hist.fetches <= 1
  /\ pc = "fetch" => (hist.conflict /\ hist.fetches = 0 /\ release.TagName = Tag)
  /\ (hist.conflict /\ pc # "fetch") =>
       /\ hist.creates = 1
       /\ hist.fetches = 1
       /\ hist.fetchTag = Tag
       /\ (Resolving /\ pc = "fatal") => hist.fatalAt \in {"fetch", "decode"}
       /\ pc = "decode" => (hist.urlFrom = "fetch" /\ hist.lastOp = "fetch")
       /\ (pc = "range" \/ cur > 0) =>
            /\ hist.urlFrom = "fetch"
            /\ release.UploadURL = Template
            /\ uploadURL = StripTemplate(Template)
       /\ PostSent => hist.file.postURL = StripTemplate(Template)
  /\ ~hist.conflict => hist.fetches = 0
C7_Witness ==
  /\ hist.conflict
  /\ hist.urlFrom = "fetch"
  /\ PostSent
  /\ hist.file.postURL = <<"u">>

\* C8: the release is resolved once, before any asset call; the files are
\* taken in input order, each begun only after the one before it ended in
\* success; when a file ends in a fatal error the files before it have
\* their assets, the run stops, and no call is ever made for a later file.
C8_OrderingShortCircuit ==
  /\ Resolving => (RemoteUntouched /\ hist.lastOp \in {"none", "create", "fetch"})
  /\ cur > 0 =>
       /\ hist.creates = 1
       /\ hist.urlFrom \in {"create", "fetch"}
       /\ InFile => fileName = Base(filepaths[cur])
       /\ PostSent => hist.file.postName = Base(filepaths[cur])
  /\ \A j \in 1..Len(filepaths) :
       /\ j < cur =>
            /\ hist.result[j] = "success"
            /\ HasName(assets, Base(filepaths[j]))
            /\ Named(assets, Base(filepaths[j])).Size = hist.size[j]
       /\ j > cur =>
            /\ hist.result[j] = "none"
            /\ hist.size[j] = -1
            /\ Named(assets, Base(filepaths[j])) = Named(hist.rest0, Base(filepaths[j]))
  /\ pc = "fatal" => RunStopped
  /\ pc = "done" => \A j \in 1..Len(filepaths) : hist.result[j] = "success"
C8_Witness ==
  /\ Len(filepaths) = 3
  /\ pc = "fatal"
  /\ hist.result = <<"success", "fatal", "none">>
  /\ hist.fatalAt = "retrylimit"
  /\ HasName(assets, 3)

\* C9 as stated: a JSON decoding failure is fatal wherever it occurs, in
\* publishRelease and in getAssetByFilename alike.
C9_Original ==
  (hist.fatalAt = "decode" \/ (InFile /\ hist.file.lookup = "decode")) => pc = "fatal"

\* C9, amended: a decoding failure of the release returned by create or
\* fetch in publishRelease aborts the run before any asset call.  A decoding
\* failure in getAssetByFilename is not fatal: it is handled as a failed
\* lookup, with no delete in that iteration, and the loop goes on to the
\* retry-limit check and the upload.
C9_DecodeFailure ==
  /\ hist.fatalAt = "decode" =>
       /\ pc = "fatal"
       /\ Resolving
       /\ RemoteUntouched
       /\ hist.lastOp \in {"create", "fetch"}
       /\ RunStopped
  /\ (pc = "range" \/ cur > 0) => release = [TagName |-> Tag, UploadURL |-> Template]
  /\ (InFile /\ hist.file.lookup = "decode") =>
       /\ Times(hist.file.iterOps, "delete") = 0
       /\ hist.file.delId = 0
       /\ asset = NoAsset
       /\ hist.result[cur] # "success"
       /\ pc \in {"limit", "backoff", "upload", "lookup", "fatal"}
       /\ pc = "lookup" => Last(hist.file.iterOps) = "upload"
       /\ pc = "fatal" => (hist.fatalAt = "retrylimit" /\ retryCount = retryLimit)
C9_Witness ==
  /\ InFile
  /\ hist.file.lookup = "decode"
  /\ Last(hist.file.iterOps) = "upload"
  /\ hist.lastOp = "upload"

\* C10: a create call that fails without "already_exists" in its body (a
\* failure status, or no response at all) aborts the run: no fetch, no
\* lookup, delete or upload; the create call is made once in a run.
C10_CreateFailure ==
  /\ hist.creates <= 1
  /\ pc = "create" <=> hist.creates = 0
  /\ (hist.createErr /\ ~hist.conflict) =>
       /\ pc = "fatal"
       /\ hist.fatalAt = "create"
       /\ hist.creates = 1
       /\ hist.fetches = 0
       /\ Resolving
       /\ RemoteUntouched
       /\ hist.lastOp = "create"
       /\ RunStopped
C10_Witness ==
  /\ hist.createErr
  /\ ~hist.conflict
  /\ pc = "fatal"
  /\ hist.rest0 # <<>>

\* C11: inside the loop a failed upload (no response, a failure status, or
\* a file that cannot be opened) and a failed delete are only logged: after
\* the upload the counter goes up and the loop returns to the lookup, after
\* the delete it goes on to the retry-limit check; the loop returns an
\* error only from the retry-limit check.
C11_TransientNotEscalated ==
  InFile =>
    /\ hist.file.upErr # "none" =>
         /\ pc = "lookup"
         /\ Last(hist.file.iterOps) = "upload"
         /\ retryCount = hist.file.uploads
         /\ retryCount >= 1
         /\ hist.result[cur] = "none"
    /\ (hist.file.delId # 0 /\ ~hist.file.delOk) =>
         /\ hist.file.iterOps[2] = "delete"
         /\ pc \in {"limit", "backoff", "upload", "lookup", "fatal"}
         /\ pc \in {"backoff", "upload", "lookup"} => "limit" = hist.file.iterOps[3]
         /\ pc = "lookup" => Last(hist.file.iterOps) = "upload"
    /\ pc = "fatal" =>
         /\ hist.fatalAt = "retrylimit"
         /\ hist.result[cur] = "fatal"
         /\ Last(hist.file.iterOps) = "limit"
         /\ retryCount = retryLimit
C11_Witness ==
  /\ InFile
  /\ hist.file.upErr = "request"
  /\ hist.file.delId # 0
  /\ ~hist.file.delOk
  /\ retryCount < retryLimit

\* C12: doRequest returns no error exactly when a response was received
\* whole and its status is 200, 201 or 204, and then returns its body and
\* status; for any other status it returns an error together with the
\* response's body and status; when the request could not be completed it
\* returns an error, no body and status 0.
C12_TransportClassification ==
  call.done =>
    LET raw == call.raw
        resp == call.resp IN
    /\ ~resp.err <=> (~raw.neterr /\ raw.status \in {200, 201, 204})
    /\ ~raw.neterr => (resp.body = raw.body /\ resp.status = raw.status)
    /\ (~raw.neterr /\ raw.status \notin {200, 201, 204}) => resp.err
    /\ raw.neterr => (resp.err /\ resp.body = NoBody /\ resp.status = 0)
C12_Witness ==
  /\ call.done
  /\ ~call.raw.neterr
  /\ call.raw.status = 422
  /\ call.resp = [body |-> ErrorBody(Marker), status |-> 422, err |-> TRUE]

\* C13: a DELETE is issued only right after a lookup of the same iteration
\* that found an asset with the file's base name and another size than the
\* file's, and it names that asset's id; a lookup that found the right size,
\* found nothing or failed is followed by no DELETE; an iteration issues at
\* most one DELETE.
C13_DeleteOnlyWrongSize ==
  InFile =>
    /\ Times(hist.file.iterOps, "delete") <= 1
    /\ pc = "delete" <=> (hist.file.lookup = "delete" /\ hist.file.iterOps = <<"lookup">>)
    /\ hist.file.delId # 0 <=> Times(hist.file.iterOps, "delete") = 1
    /\ Times(hist.file.iterOps, "delete") = 1 =>
         /\ SubSeq(hist.file.iterOps, 1, 2) = <<"lookup", "delete">>
         /\ hist.file.lookup = "delete"
         /\ asset # NoAsset
         /\ asset.Name = Base(filepaths[cur])
         /\ asset.Size # hist.size[cur]
         /\ hist.file.delId = asset.Id
         /\ (hist.file.delOk /\ Last(hist.file.iterOps) # "upload") =>
              /\ ~HasName(assets, asset.Name)
              /\ \A i \in 1..Len(assets) : assets[i].Id # asset.Id
         /\ ~hist.file.delOk => (Last(hist.file.iterOps) = "upload"
                                   \/ Named(assets, asset.Name) = asset)
    /\ hist.file.lookup \in {"correct", "notfound", "request", "decode"} =>
         /\ Times(hist.file.iterOps, "delete") = 0
         /\ pc # "delete"
    /\ hist.file.lookup = "correct" => Named(assets, Base(filepaths[cur])) = asset
C13_Witness ==
  /\ InFile
  /\ pc = "limit"
  /\ hist.file.delOk
  /\ hist.file.delId = asset.Id
  /\ asset.Size # fileSize
  /\ Len(assets) >= 1

\* The steps a run can still take, at most: Rank orders the steps of one
\* iteration of uploadFileWithRetry's loop, StepsPerFile is one more than
\* the steps of the longest call of uploadFileWithRetry.
Rank(p) ==
  CASE p = "lookup" -> 5
    [] p = "delete" -> 4
    [] p = "limit" -> 3
    [] p = "backoff" -> 2
    [] p = "upload" -> 1
StepsPerFile == 5 * retryLimit + 6
Measure ==
  CASE pc \in {"done", "fatal"} -> 0
    [] pc = "create" -> Len(filepaths) * StepsPerFile + 4
    [] pc = "fetch" -> Len(filepaths) * StepsPerFile + 3
    [] pc = "decode" -> Len(filepaths) * StepsPerFile + 2
    [] pc = "range" -> (Len(filepaths) - cur) * StepsPerFile + 1
    [] OTHER -> (Len(filepaths) - cur) * StepsPerFile + 1
                  + (retryLimit - retryCount) * 5 + Rank(pc)
C14_Counts ==
  /\ Measure \in Nat
  /\ InFile =>
       /\ retryCount \in 0..retryLimit
       /\ retryCount = hist.file.uploads
       /\ hist.file.lookups = IF pc = "lookup" THEN retryCount
                               ELSE retryCount + 1
       /\ hist.file.lookups <= retryLimit + 1
       /\ (FileSucceeded \/ FileFailed \/ pc = "done") =>
            /\ hist.file.lookups = retryCount + 1
            /\ hist.file.iterOps \in {<<"lookup">>, <<"lookup", "limit">>,
                                      <<"lookup", "delete", "limit">>}

\* C14: every call of uploadFileWithRetry returns after at most
\* retryLimit + 1 lookups and at most retryLimit uploads; retryCount stays
\* within 0..retryLimit and equals the uploads made so far; every step of a
\* run lowers a natural-number measure, and a run over its finite file list
\* comes to an end.
C14_BoundedTermination ==
  /\ []C14_Counts
  /\ [][Measure' < Measure]_vars
  /\ <>(pc \in {"done", "fatal"})
C14_Witness ==
  /\ pc = "done"
  /\ Len(filepaths) >= 2
  /\ hist.file.lookups = retryLimit + 1
  /\ hist.file.uploads = retryLimit
  /\ retryCount = retryLimit

\* C15: the lookup comes before the retry-limit check in every iteration, so
\* after the retryLimit-th upload one more lookup runs, and when it finds an
\* asset of the file's name and size the call returns success although
\* retryCount = retryLimit; the retry-limit check is never reached then.
C15_VerifyBeforeLimit ==
  InFile =>
    /\ pc \in {"limit", "backoff", "upload", "delete"} =>
         /\ hist.file.iterOps[1] = "lookup"
         /\ Times(hist.file.iterOps, "lookup") = 1
         /\ hist.file.lookup # "correct"
    /\ (retryCount = retryLimit /\ pc # "lookup") =>
         /\ hist.file.lookups = retryLimit + 1
         /\ hist.file.iterOps[1] = "lookup"
         /\ Times(hist.file.iterOps, "upload") = 0
    /\ (retryCount = retryLimit /\ pc # "lookup" /\ hist.file.lookup = "correct") =>
         /\ pc \in {"range", "done"}
         /\ hist.result[cur] = "success"
         /\ hist.fatalAt = "none"
         /\ hist.file.iterOps = <<"lookup">>
         /\ asset.Name = Base(filepaths[cur])
         /\ asset.Size = hist.size[cur]
    /\ FileFailed =>
         /\ hist.file.lookup # "correct"
         /\ hist.file.iterOps \in {<<"lookup", "limit">>,
                                   <<"lookup", "delete", "limit">>}
C15_Witness ==
  /\ FileSucceeded
  /\ retryCount = retryLimit
  /\ hist.file.lookups = retryLimit + 1
  /\ hist.file.asset0 = NoAsset
  /\ hist.file.lookup = "correct"

\* C16: a call that ends in "retry limit reached" has made exactly
\* retryLimit + 1 lookups, the last of them in the iteration of the limit
\* check and after the last upload; when that lookup found an asset (of
\* another size than the file's), a DELETE for it was issued after the last
\* upload; and when that DELETE succeeded the release holds no asset of the
\* file's name.
C16_FatalAfterClear ==
  (FileFailed /\ hist.fatalAt = "retrylimit") =>
    /\ hist.file.lookups = retryLimit + 1
    /\ hist.file.uploads = retryLimit
    /\ hist.file.iterOps[1] = "lookup"
    /\ Last(hist.file.iterOps) = "limit"
    /\ Times(hist.file.iterOps, "upload") = 0
    /\ asset = NoAsset =>
         /\ hist.file.iterOps = <<"lookup", "limit">>
         /\ hist.file.lookup \in {"notfound", "request", "decode"}
    /\ asset # NoAsset =>
         /\ asset.Name = Base(filepaths[cur])
         /\ asset.Size # hist.size[cur]
         /\ hist.file.iterOps = <<"lookup", "delete", "limit">>
         /\ hist.file.delId = asset.Id
         /\ hist.lastOp = "delete"
         /\ ~hist.file.delOk => Named(assets, Base(filepaths[cur])) = asset
    /\ hist.file.delOk =>
         /\ asset # NoAsset
         /\ ~HasName(assets, Base(filepaths[cur]))
C16_Witness ==
  /\ FileFailed
  /\ hist.fatalAt = "retrylimit"
  /\ hist.file.delOk
  /\ asset.Size < hist.size[cur]
  /\ hist.file.upErr = "none"
  /\ ~HasName(assets, Base(filepaths[cur]))

\* C17: a lookup whose GET failed (no answer, or another status than
\* success) is followed by no DELETE, by the retry-limit check and, below
\* the limit, by the upload; it neither ends the call with success nor
\* aborts it by itself.  A call in which every lookup failed so has issued
\* no DELETE, has left the release's assets alone unless an upload added
\* one, and when it ends it ends in "retry limit reached" after exactly
\* retryLimit uploads.
C17_FailedLookup ==
  InFile =>
    /\ hist.file.lookup = "request" =>
         /\ asset = NoAsset
         /\ Times(hist.file.iterOps, "delete") = 0
         /\ hist.file.delId = 0
         /\ hist.result[cur] # "success"
         /\ pc \in {"limit", "backoff", "upload", "lookup", "fatal"}
         /\ pc \in {"backoff", "upload"} => retryCount < retryLimit
         /\ pc = "lookup" => Last(hist.file.iterOps) = "upload"
         /\ pc = "fatal" =>
              /\ hist.fatalAt = "retrylimit"
              /\ hist.file.iterOps = <<"lookup", "limit">>
              /\ retryCount = retryLimit
    /\ (hist.file.blind /\ hist.file.lookups >= 1) =>
         /\ hist.file.lookup = "request"
         /\ hist.lastOp \in {"lookup", "upload"}
         /\ hist.file.asset0 # NoAsset => Named(assets, Base(filepaths[cur])) = hist.file.asset0
         /\ pc \notin {"range", "done", "delete"}
         /\ pc = "fatal" =>
              /\ hist.file.uploads = retryLimit
              /\ hist.file.lookups = retryLimit + 1
C17_Witness ==
  /\ FileFailed
  /\ hist.file.blind
  /\ hist.file.uploads = retryLimit
  /\ hist.file.asset0 # NoAsset
  /\ hist.file.asset0.Size = hist.size[cur]

\* What the release holds for the files of the run: for a file not yet
\* begun, what it held when the run began; for a file that ended in
\* success, an asset of the file's size.  The DELETE and the upload request
\* of a file's loop name the file's base name.
C18_Kept ==
  /\ \A j \in 1..Len(filepaths) :
       LET held == Named(assets, Base(filepaths[j])) IN
       /\ j > cur => held = Named(hist.rest0, Base(filepaths[j]))
       /\ (j < cur \/ (j = cur /\ hist.result[j] = "success")) =>
            /\ hist.result[j] = "success"
            /\ held # NoAsset
            /\ held.Size = hist.size[j]
  /\ \A i \in 1..Len(assets) :
       \E j \in 1..Len(filepaths) : assets[i].Name = Base(filepaths[j])
  /\ (InFile /\ hist.file.delId # 0) =>
       /\ asset.Name = Base(filepaths[cur])
       /\ asset.Id = hist.file.delId
  /\ (InFile /\ PostSent) => hist.file.postName = Base(filepaths[cur])
\* A step leaves every asset alone that has not the base name of the file
\* the step belongs to.
C18_Step ==
  \A j \in 1..Len(filepaths) :
    j # cur' => Named(assets', Base(filepaths[j])) = Named(assets, Base(filepaths[j]))

\* C18: the steps of a file's loop delete and upload only assets of that
\* file's base name; every other asset of the release, the assets of the
\* files that ended in success before among them, is left as it is by every
\* later step, so the asset of a file that ended in success is on the
\* release with the file's size until the run ends.
C18_Frame == []C18_Kept /\ [][C18_Step]_vars
C18_Witness ==
  /\ FileSucceeded
  /\ cur = 2
  /\ Len(filepaths) = 3
  /\ Len(assets) = 3
  /\ hist.file.asset0 # NoAsset
  /\ hist.file.asset0.Size # hist.size[cur]
  /\ hist.file.uploads >= 2

\* The release is resolved: the range loop over the files was reached.
Resolved == pc \in {"range", "lookup", "delete", "limit", "backoff", "upload", "done"}
              \/ (pc = "fatal" /\ cur > 0)
IsPrefix(p, t) == Len(p) <= Len(t) /\ SubSeq(t, 1, Len(p)) = p
C19_Base ==
  /\ ~Resolved => (uploadURL = <<>> /\ cur = 0)
  /\ Resolved =>
       /\ release.UploadURL = template
       /\ IsPrefix(uploadURL, template)
       /\ \A i \in 1..Len(uploadURL) : uploadURL[i] # "{"
       /\ IF \E i \in 1..Len(template) : template[i] = "{"
            THEN /\ Len(uploadURL) < Len(template)
                 /\ template[Len(uploadURL) + 1] = "{"
            ELSE uploadURL = template
       /\ (InFile /\ PostSent) => hist.file.postURL = uploadURL

\* C19: the base URL of every upload request of a run is the release's
\* upload_url cut before its first "{", the whole upload_url when it has
\* none: a prefix of it without "{".  It is set once, when the release has
\* been decoded, and no later step changes it, so it is the same for every
\* file.
C19_UploadBase ==
  /\ []C19_Base
  /\ [][uploadURL' # uploadURL => (pc = "decode" /\ pc' = "range")]_vars
  /\ [][Resolved => (Resolved' /\ uploadURL' = uploadURL)]_vars
C19_Witness ==
  /\ cur = 2
  /\ PostSent
  /\ FileSucceeded
  /\ template = <<"{", "u">>
  /\ hist.file.postURL = <<>>

====
